---------------------------- MODULE Spec2Model ----------------------------
(***************************************************************************)
(* A model of texlab's recursive-descent LaTeX parser                      *)
(* (src/parser/latex.rs).                                                  *)
(*                                                                         *)
(* The lexer's output is a finite sequence of token kinds; the lexeme of   *)
(* the i-th token is represented by its index i, so that every lexeme is   *)
(* distinct and a leaf of the tree names the token it was made from.  The  *)
(* parser never reads a lexeme: it only hands it to the tree builder.      *)
(*                                                                         *)
(* Every parse rule of the source is an operator of the same name taking   *)
(* the Parser value (lexer position, builder) and returning the Parser     *)
(* value the rule leaves behind.  The steps of Parser::parse are the       *)
(* actions of the state machine.                                           *)
(***************************************************************************)
EXTENDS Naturals, Sequences, FiniteSets

VARIABLES input, parser, pc, green

vars == <<input, parser, pc, green>>

---------------------------------------------------------------------------
(* Bounds of the model.                                                    *)

\* longest input over the whole token alphabet
MaxLenAll == 2

\* longest input over the alphabet of brackets, words and structure tokens
MaxLenCore == 4

\* most argument tokens after a command token
MaxArgs == 4

\* longest input over the alphabet of sectioning commands
MaxLenSections == 3

\* longest input handed to expect and expect2
MaxLenExpect == 3

\* most tokens after an opening bracket or parenthesis
MaxLenBracketed == 2

\* most tokens after the opening brace of a word list
MaxLenList == 3

\* most tokens after the opening bracket of a key-value group
MaxLenKeyValue == 4

\* most tokens after the opening brace of the body of an environment definition
MaxLenProtected == 4

\* most tokens after \graphicspath
MaxLenPath == 4

---------------------------------------------------------------------------
(* SyntaxKind: the token kinds the lexer produces.                         *)

None == "none"

TriviaKinds == {"LINE_BREAK", "WHITESPACE", "COMMENT"}

SectionNames ==
    {"PART_NAME", "CHAPTER_NAME", "SECTION_NAME", "SUBSECTION_NAME",
     "SUBSUBSECTION_NAME", "PARAGRAPH_NAME", "SUBPARAGRAPH_NAME"}

IncludeNames ==
    {"PACKAGE_INCLUDE_NAME", "CLASS_INCLUDE_NAME", "LATEX_INCLUDE_NAME",
     "BIBLATEX_INCLUDE_NAME", "BIBTEX_INCLUDE_NAME", "GRAPHICS_INCLUDE_NAME",
     "SVG_INCLUDE_NAME", "INKSCAPE_INCLUDE_NAME", "VERBATIM_INCLUDE_NAME"}

CommandNames ==
    {"GENERIC_COMMAND_NAME", "BEGIN_ENVIRONMENT_NAME", "END_ENVIRONMENT_NAME",
     "BEGIN_EQUATION_NAME", "END_EQUATION_NAME"}
    \cup SectionNames
    \cup {"ENUM_ITEM_NAME", "CAPTION_NAME", "CITATION_NAME"}
    \cup IncludeNames
    \cup {"IMPORT_NAME", "LABEL_DEFINITION_NAME", "LABEL_REFERENCE_NAME",
          "LABEL_REFERENCE_RANGE_NAME", "LABEL_NUMBER_NAME",
          "COMMAND_DEFINITION_NAME", "MATH_OPERATOR_NAME",
          "GLOSSARY_ENTRY_DEFINITION_NAME", "GLOSSARY_ENTRY_REFERENCE_NAME",
          "ACRONYM_DEFINITION_NAME", "ACRONYM_DECLARATION_NAME",
          "ACRONYM_REFERENCE_NAME", "THEOREM_DEFINITION_NAME",
          "COLOR_REFERENCE_NAME", "COLOR_DEFINITION_NAME",
          "COLOR_SET_DEFINITION_NAME", "TIKZ_LIBRARY_IMPORT_NAME",
          "ENVIRONMENT_DEFINITION_NAME", "BEGIN_BLOCK_COMMENT_NAME",
          "END_BLOCK_COMMENT_NAME", "GRAPHICS_PATH_NAME"}

\* SyntaxKind::is_command_name
is_command_name(kind) == kind \in CommandNames

\* the kinds of the tokens the lexer emits
TokenKinds ==
    TriviaKinds
    \cup {"VERBATIM", "L_CURLY", "R_CURLY", "L_BRACK", "R_BRACK", "L_PAREN",
          "R_PAREN", "WORD", "COMMA", "EQUALITY_SIGN", "DOLLAR"}
    \cup CommandNames

\* the alphabet of the longer inputs: brackets, text and structure tokens
CoreKinds ==
    {"L_CURLY", "R_CURLY", "L_BRACK", "R_PAREN", "WORD", "WHITESPACE",
     "BEGIN_ENVIRONMENT_NAME", "END_ENVIRONMENT_NAME"}

\* the alphabet of the arguments that follow a command token
ArgKinds == {"L_CURLY", "R_CURLY", "L_BRACK", "R_BRACK", "WORD"}

\* the alphabet of sectioning commands and of the tokens that end their bodies
SectionKinds == SectionNames \cup {"L_CURLY", "R_CURLY", "END_ENVIRONMENT_NAME"}

---------------------------------------------------------------------------
(* The green tree: a leaf carries its kind and its lexeme (the index of    *)
(* the token, 0 for the empty lexeme); a node its kind and children.       *)

Leaf(kind, text) == [node |-> FALSE, kind |-> kind, text |-> text, children |-> <<>>]

Node(kind, children) == [node |-> TRUE, kind |-> kind, text |-> 0, children |-> children]

---------------------------------------------------------------------------
(* GreenNodeBuilder, by its contract: a stack of open nodes, each with the *)
(* number of children that preceded it, and the list of finished children. *)

Panic(p, what) == [p EXCEPT !.panics = @ \cup {what}]

start_node(p, kind) ==
    [p EXCEPT !.parents = Append(@, [kind |-> kind, first_child |-> Len(p.children)])]

token(p, kind, text) ==
    [p EXCEPT !.children = Append(@, Leaf(kind, text))]

finish_node(p) ==
    IF p.parents = <<>>
    THEN Panic(p, "finish_node")
    ELSE LET top == p.parents[Len(p.parents)]
             n   == Len(p.children)
         IN  [p EXCEPT
                !.parents = SubSeq(@, 1, Len(@) - 1),
                !.children =
                    Append(SubSeq(@, 1, top.first_child),
                           Node(top.kind, SubSeq(@, top.first_child + 1, n)))]

checkpoint(p) == Len(p.children)

start_node_at(p, cp, kind) ==
    IF \/ cp > Len(p.children)
       \/ p.parents # <<>> /\ p.parents[Len(p.parents)].first_child > cp
    THEN Panic(p, "start_node_at")
    ELSE [p EXCEPT !.parents = Append(@, [kind |-> kind, first_child |-> cp])]

---------------------------------------------------------------------------
(* Parser: lexer access.                                                   *)

MISSING == "MISSING"

\* Parser::new
new ==
    [pos |-> 1, parents |-> <<>>, children |-> <<>>,
     panics |-> {}, stalled |-> FALSE, unbalanced |-> FALSE,
     idle |-> FALSE, calls |-> {}]

peek(p) == IF p.pos <= Len(input) THEN input[p.pos] ELSE None

\* eat that hands trivia to nobody: the lexer advances, no leaf is appended
eat_dropping_trivia(p) ==
    IF p.pos > Len(input)
    THEN Panic(p, "eat")
    ELSE IF input[p.pos] \in TriviaKinds
         THEN [p EXCEPT !.pos = @ + 1]
         ELSE token([p EXCEPT !.pos = @ + 1], input[p.pos], p.pos)

eat(p) ==
    IF p.pos > Len(input)
    THEN Panic(p, "eat")
    ELSE token([p EXCEPT !.pos = @ + 1], input[p.pos], p.pos)

\* a rule entered with Parser value p returns q
Ret(p, q) ==
    IF Len(q.parents) = Len(p.parents) THEN q ELSE [q EXCEPT !.unbalanced = TRUE]

\* one iteration of a while loop took the Parser value p to q; an iteration
\* that leaves the lexer where it was repeats for ever
Iter(p, q) == IF q.pos > p.pos THEN q ELSE [q EXCEPT !.stalled = TRUE]

\* a call of content took the Parser value p to q
Consumes(p, q) == IF q.pos > p.pos THEN q ELSE [q EXCEPT !.stalled = TRUE]

\* one iteration of a for loop of fixed count took p to q
ForIter(p, q) == IF q.pos > p.pos THEN q ELSE [q EXCEPT !.idle = TRUE]

RECURSIVE trivia(_)
trivia(p) ==
    IF peek(p) \in {"LINE_BREAK", "WHITESPACE", "COMMENT"} /\ ~p.stalled
    THEN trivia(Iter(p, eat(p)))
    ELSE p

\* expect that leaves the trivia after the expected token to its caller
expect_without_trivia(p, kind) ==
    IF peek(p) = kind THEN eat(p) ELSE token(p, MISSING, 0)

expect(p, kind) ==
    IF peek(p) = kind
    THEN trivia(eat(p))
    ELSE token(p, MISSING, 0)

expect2(p, kind1, kind2) ==
    IF peek(p) \in {kind1, kind2}
    THEN trivia(eat(p))
    ELSE token(p, MISSING, 0)

DefaultContext == [allow_environment |-> TRUE, allow_comma |-> TRUE]

---------------------------------------------------------------------------
(* The parse rules.                                                        *)

RECURSIVE content(_, _)
RECURSIVE begin(_)
RECURSIVE end(_)
RECURSIVE path(_)
RECURSIVE curly_group_path(_)

\* while peek is some kind outside stop { content(context) }
RECURSIVE content_until(_, _, _)
content_until(p, stop, context) ==
    IF peek(p) # None /\ peek(p) \notin stop /\ ~p.stalled
    THEN content_until(Iter(p, content(p, context)), stop, context)
    ELSE p

\* text that opens and closes its node without eating the first token
text_not_eating(p, context) ==
    Ret(p, finish_node(start_node(p, "TEXT")))

\* text that takes commas whatever the context
text_taking_commas(p, context) ==
    LET RECURSIVE loop(_)
        loop(q) ==
            IF /\ peek(q) \in {"LINE_BREAK", "WHITESPACE", "COMMENT", "WORD", "COMMA"}
               /\ ~q.stalled
            THEN loop(Iter(q, eat(q)))
            ELSE q
    IN  Ret(p, finish_node(loop(eat(start_node(p, "TEXT")))))

text(p, context) ==
    LET RECURSIVE loop(_)
        loop(q) ==
            IF /\ peek(q) \in {"LINE_BREAK", "WHITESPACE", "COMMENT", "WORD", "COMMA"}
               /\ (context.allow_comma \/ peek(q) # "COMMA")
               /\ ~q.stalled
            THEN loop(Iter(q, eat(q)))
            ELSE q
    IN  Ret(p, finish_node(loop(eat(start_node(p, "TEXT")))))

curly_group(p) ==
    Ret(p, finish_node(expect(
        content_until(eat(start_node(p, "CURLY_GROUP")), {"R_CURLY"}, DefaultContext),
        "R_CURLY")))

curly_group_impl(p) ==
    LET RECURSIVE loop(_)
        loop(q) ==
            IF peek(q) = None \/ peek(q) = "R_CURLY" \/ q.stalled
            THEN q
            ELSE loop(Iter(q,
                    CASE peek(q) = "BEGIN_ENVIRONMENT_NAME" -> begin(q)
                      [] peek(q) = "END_ENVIRONMENT_NAME" -> end(q)
                      [] OTHER -> content(q, DefaultContext)))
    IN  Ret(p, finish_node(expect(loop(eat(start_node(p, "CURLY_GROUP"))), "R_CURLY")))

\* curly_group_without_environments that passes the default context
curly_group_with_environments(p) ==
    Ret(p, finish_node(expect(
        content_until(eat(start_node(p, "CURLY_GROUP")), {"R_CURLY"}, DefaultContext),
        "R_CURLY")))

curly_group_without_environments(p) ==
    Ret(p, finish_node(expect(
        content_until(eat(start_node(p, "CURLY_GROUP")), {"R_CURLY"},
                      [allow_environment |-> FALSE, allow_comma |-> TRUE]),
        "R_CURLY")))

\* key that takes one word and nothing after it
key_one_word(p) == Ret(p, finish_node(eat(start_node(p, "KEY"))))

key(p) ==
    LET RECURSIVE loop(_)
        loop(q) ==
            IF peek(q) \in {"WHITESPACE", "COMMENT", "WORD"} /\ ~q.stalled
            THEN loop(Iter(q, eat(q)))
            ELSE q
    IN  Ret(p, finish_node(trivia(loop(eat(start_node(p, "KEY"))))))

curly_group_word(p) ==
    LET name(q) ==
            CASE peek(q) = "WORD" -> key(q)
              [] peek(q) # "WORD" /\ is_command_name(peek(q)) -> content(q, DefaultContext)
              [] OTHER -> token(q, MISSING, 0)
    IN  Ret(p, finish_node(expect(
            name(trivia(eat(start_node(p, "CURLY_GROUP_WORD")))), "R_CURLY")))

curly_group_word_list(p) ==
    LET RECURSIVE loop(_)
        loop(q) ==
            IF /\ peek(q) \in {"LINE_BREAK", "WHITESPACE", "COMMENT", "WORD", "COMMA"}
               /\ ~q.stalled
            THEN loop(Iter(q, IF peek(q) = "WORD" THEN key(q) ELSE eat(q)))
            ELSE q
    IN  Ret(p, finish_node(expect(
            loop(eat(start_node(p, "CURLY_GROUP_WORD_LIST"))), "R_CURLY")))

curly_group_command(p) ==
    LET name(q) ==
            IF is_command_name(peek(q)) THEN trivia(eat(q)) ELSE token(q, MISSING, 0)
    IN  Ret(p, finish_node(expect(
            name(trivia(eat(start_node(p, "CURLY_GROUP_COMMAND")))), "R_CURLY")))

brack_group(p) ==
    Ret(p, finish_node(expect(
        content_until(eat(start_node(p, "BRACK_GROUP")),
                      {"R_CURLY", "R_BRACK", "PART_NAME", "CHAPTER_NAME", "SECTION_NAME",
                       "SUBSECTION_NAME", "PARAGRAPH_NAME", "SUBPARAGRAPH_NAME",
                       "ENUM_ITEM_NAME", "END_ENVIRONMENT_NAME"},
                      DefaultContext),
        "R_BRACK")))

brack_group_word(p) ==
    LET name(q) == IF peek(q) = "WORD" THEN key(q) ELSE token(q, MISSING, 0)
    IN  Ret(p, finish_node(expect(
            name(trivia(eat(start_node(p, "BRACK_GROUP_WORD")))), "R_BRACK")))

\* mixed_group that accepts R_BRACK only
mixed_group_brack_only(p) ==
    Ret(p, finish_node(expect(
        content_until(trivia(eat(start_node(p, "MIXED_GROUP"))),
                      {"R_CURLY", "R_BRACK", "R_PAREN", "PART_NAME", "CHAPTER_NAME",
                       "SECTION_NAME", "SUBSECTION_NAME", "PARAGRAPH_NAME",
                       "SUBPARAGRAPH_NAME", "ENUM_ITEM_NAME", "END_ENVIRONMENT_NAME"},
                      DefaultContext),
        "R_BRACK")))

mixed_group(p) ==
    Ret(p, finish_node(expect2(
        content_until(trivia(eat(start_node(p, "MIXED_GROUP"))),
                      {"R_CURLY", "R_BRACK", "R_PAREN", "PART_NAME", "CHAPTER_NAME",
                       "SECTION_NAME", "SUBSECTION_NAME", "PARAGRAPH_NAME",
                       "SUBPARAGRAPH_NAME", "ENUM_ITEM_NAME", "END_ENVIRONMENT_NAME"},
                      DefaultContext),
        "R_BRACK", "R_PAREN")))

\* value that passes allow_environment = false as well
value_without_environments(p) ==
    Ret(p, finish_node(
        content_until(start_node(p, "VALUE"), {"COMMA", "R_BRACK", "R_CURLY"},
                      [allow_environment |-> FALSE, allow_comma |-> FALSE])))

value(p) ==
    Ret(p, finish_node(
        content_until(start_node(p, "VALUE"), {"COMMA", "R_BRACK", "R_CURLY"},
                      [allow_environment |-> TRUE, allow_comma |-> FALSE])))

key_value_pair(p) ==
    LET val(q) ==
            IF /\ peek(q) # None
               /\ peek(q) \notin {"END_ENVIRONMENT_NAME", "R_CURLY", "R_BRACK", "R_PAREN",
                                  "COMMA"}
            THEN value(q)
            ELSE token(q, MISSING, 0)
        equals(q) == IF peek(q) = "EQUALITY_SIGN" THEN val(trivia(eat(q))) ELSE q
    IN  Ret(p, finish_node(equals(key(start_node(p, "KEY_VALUE_PAIR")))))

key_value_body(p) ==
    LET RECURSIVE loop(_)
        comma(q, r) == IF peek(r) = "COMMA" THEN loop(Iter(q, eat(r))) ELSE r
        loop(q) ==
            CASE q.stalled -> q
              [] ~q.stalled /\ peek(q) \in {"LINE_BREAK", "WHITESPACE", "COMMENT"} ->
                    loop(Iter(q, eat(q)))
              [] ~q.stalled /\ peek(q) = "WORD" -> comma(q, key_value_pair(q))
              [] OTHER -> q
    IN  Ret(p, finish_node(loop(start_node(p, "KEY_VALUE_BODY"))))

group_key_value(p, node_kind, right_kind) ==
    Ret(p, finish_node(expect(
        key_value_body(trivia(eat(start_node(p, node_kind)))), right_kind)))

curly_group_key_value(p) == group_key_value(p, "CURLY_GROUP_KEY_VALUE", "R_CURLY")

brack_group_key_value(p) == group_key_value(p, "BRACK_GROUP_KEY_VALUE", "R_BRACK")

formula(p) ==
    Ret(p, finish_node(expect(
        content_until(trivia(eat(start_node(p, "FORMULA"))),
                      {"R_CURLY", "END_ENVIRONMENT_NAME", "DOLLAR"}, DefaultContext),
        "DOLLAR")))

generic_command(p) ==
    LET RECURSIVE loop(_)
        loop(q) ==
            CASE q.stalled -> q
              [] ~q.stalled /\ peek(q) \in {"LINE_BREAK", "WHITESPACE", "COMMENT"} ->
                    loop(Iter(q, eat(q)))
              [] ~q.stalled /\ peek(q) = "L_CURLY" -> loop(Iter(q, curly_group(q)))
              [] ~q.stalled /\ peek(q) \in {"L_BRACK", "L_PAREN"} ->
                    loop(Iter(q, mixed_group(q)))
              [] OTHER -> q
    IN  Ret(p, finish_node(loop(eat(start_node(p, "GENERIC_COMMAND")))))

equation(p) ==
    Ret(p, finish_node(expect(
        content_until(eat(start_node(p, "EQUATION")),
                      {"END_ENVIRONMENT_NAME", "R_CURLY", "END_EQUATION_NAME"},
                      DefaultContext),
        "END_EQUATION_NAME")))

begin(p) ==
    LET name(q) ==
            IF peek(q) = "L_CURLY" THEN curly_group_word(q) ELSE token(q, MISSING, 0)
        options(q) ==
            IF peek(q) = "L_BRACK" THEN brack_group(q) ELSE q
    IN  Ret(p, finish_node(
            options(name(trivia(eat(start_node(p, "BEGIN")))))))

end(p) ==
    LET name(q) ==
            IF peek(q) = "L_CURLY" THEN curly_group_word(q) ELSE token(q, MISSING, 0)
    IN  Ret(p, finish_node(
            name(trivia(eat(start_node(p, "END"))))))

\* environment that appends no MISSING leaf when no END follows the body
environment_without_missing(p) ==
    LET close(q) == IF peek(q) = "END_ENVIRONMENT_NAME" THEN end(q) ELSE q
    IN  Ret(p, finish_node(close(
            content_until(begin(start_node(p, "ENVIRONMENT")),
                          {"R_CURLY", "END_ENVIRONMENT_NAME"}, DefaultContext))))

environment(p) ==
    LET close(q) ==
            IF peek(q) = "END_ENVIRONMENT_NAME" THEN end(q) ELSE token(q, MISSING, 0)
    IN  Ret(p, finish_node(close(
            content_until(begin(start_node(p, "ENVIRONMENT")),
                          {"R_CURLY", "END_ENVIRONMENT_NAME"}, DefaultContext))))

\* preamble that also stops at the first sectioning command
preamble_until_section(p) ==
    Ret(p, finish_node(
        content_until(start_node(p, "PREAMBLE"), {"END_ENVIRONMENT_NAME"} \cup SectionNames,
                      DefaultContext)))

preamble(p) ==
    Ret(p, finish_node(
        content_until(start_node(p, "PREAMBLE"), {"END_ENVIRONMENT_NAME"}, DefaultContext)))

part(p) ==
    LET title(q) ==
            IF peek(q) = "L_CURLY" THEN curly_group(q) ELSE token(q, MISSING, 0)
    IN  Ret(p, finish_node(
            content_until(title(trivia(eat(start_node(p, "PART")))),
             {"END_ENVIRONMENT_NAME", "R_CURLY", "PART_NAME"},
             DefaultContext)))

chapter(p) ==
    LET title(q) ==
            IF peek(q) = "L_CURLY" THEN curly_group(q) ELSE token(q, MISSING, 0)
    IN  Ret(p, finish_node(
            content_until(title(trivia(eat(start_node(p, "CHAPTER")))),
             {"END_ENVIRONMENT_NAME", "R_CURLY", "PART_NAME", "CHAPTER_NAME"},
             DefaultContext)))

\* section whose body does not stop at a chapter
section_over_chapter(p) ==
    LET title(q) ==
            IF peek(q) = "L_CURLY" THEN curly_group(q) ELSE token(q, MISSING, 0)
    IN  Ret(p, finish_node(
            content_until(title(trivia(eat(start_node(p, "SECTION")))),
             {"END_ENVIRONMENT_NAME", "R_CURLY", "PART_NAME", "SECTION_NAME"},
             DefaultContext)))

section(p) ==
    LET title(q) ==
            IF peek(q) = "L_CURLY" THEN curly_group(q) ELSE token(q, MISSING, 0)
    IN  Ret(p, finish_node(
            content_until(title(trivia(eat(start_node(p, "SECTION")))),
             {"END_ENVIRONMENT_NAME", "R_CURLY", "PART_NAME", "CHAPTER_NAME",
              "SECTION_NAME"},
             DefaultContext)))

subsection(p) ==
    LET title(q) ==
            IF peek(q) = "L_CURLY" THEN curly_group(q) ELSE token(q, MISSING, 0)
    IN  Ret(p, finish_node(
            content_until(title(trivia(eat(start_node(p, "SUBSECTION")))),
             {"END_ENVIRONMENT_NAME", "R_CURLY", "PART_NAME", "CHAPTER_NAME",
              "SECTION_NAME", "SUBSECTION_NAME"},
             DefaultContext)))

subsubsection(p) ==
    LET title(q) ==
            IF peek(q) = "L_CURLY" THEN curly_group(q) ELSE token(q, MISSING, 0)
    IN  Ret(p, finish_node(
            content_until(title(trivia(eat(start_node(p, "SUBSUBSECTION")))),
             {"END_ENVIRONMENT_NAME", "R_CURLY", "PART_NAME", "CHAPTER_NAME",
              "SECTION_NAME", "SUBSECTION_NAME", "SUBSUBSECTION_NAME"},
             DefaultContext)))

paragraph(p) ==
    LET title(q) ==
            IF peek(q) = "L_CURLY" THEN curly_group(q) ELSE token(q, MISSING, 0)
    IN  Ret(p, finish_node(
            content_until(title(trivia(eat(start_node(p, "PARAGRAPH")))),
             {"END_ENVIRONMENT_NAME", "R_CURLY", "PART_NAME", "CHAPTER_NAME",
              "SECTION_NAME", "SUBSECTION_NAME", "SUBSUBSECTION_NAME",
              "PARAGRAPH_NAME"},
             DefaultContext)))

subparagraph(p) ==
    LET title(q) ==
            IF peek(q) = "L_CURLY" THEN curly_group(q) ELSE token(q, MISSING, 0)
    IN  Ret(p, finish_node(
            content_until(title(trivia(eat(start_node(p, "SUBPARAGRAPH")))),
             {"END_ENVIRONMENT_NAME", "R_CURLY", "PART_NAME", "CHAPTER_NAME",
              "SECTION_NAME", "SUBSECTION_NAME", "SUBSUBSECTION_NAME",
              "PARAGRAPH_NAME", "SUBPARAGRAPH_NAME"},
             DefaultContext)))

enum_item(p) ==
    LET label(q) ==
            IF peek(q) = "L_BRACK" THEN brack_group(q) ELSE q
    IN  Ret(p, finish_node(
            content_until(label(trivia(eat(start_node(p, "ENUM_ITEM")))),
             {"END_ENVIRONMENT_NAME", "R_CURLY", "PART_NAME", "CHAPTER_NAME",
              "SECTION_NAME", "SUBSECTION_NAME", "SUBSUBSECTION_NAME", "PARAGRAPH_NAME",
              "SUBPARAGRAPH_NAME", "ENUM_ITEM_NAME"},
             DefaultContext)))

\* block_comment that eats the VERBATIM body without looking
block_comment_unchecked(p) ==
    LET body(q) == eat(q)
        close(q) ==
            IF peek(q) = "END_BLOCK_COMMENT_NAME" THEN eat(q) ELSE token(q, MISSING, 0)
    IN  Ret(p, finish_node(close(body(eat(start_node(p, "BLOCK_COMMENT"))))))

block_comment(p) ==
    LET body(q) == IF peek(q) = "VERBATIM" THEN eat(q) ELSE q
        close(q) ==
            IF peek(q) = "END_BLOCK_COMMENT_NAME" THEN eat(q) ELSE token(q, MISSING, 0)
    IN  Ret(p, finish_node(close(body(eat(start_node(p, "BLOCK_COMMENT"))))))

caption(p) ==
    LET short(q) ==
            IF peek(q) = "L_BRACK" THEN brack_group(q) ELSE q
        long(q) ==
            IF peek(q) = "L_CURLY" THEN curly_group(q) ELSE token(q, MISSING, 0)
    IN  Ret(p, finish_node(
            long(short(trivia(eat(start_node(p, "CAPTION")))))))

citation(p) ==
    LET body(q) == ForIter(q, IF peek(q) = "L_BRACK" THEN brack_group(q) ELSE q)
        keys(q) ==
            IF peek(q) = "L_CURLY" THEN curly_group_word_list(q) ELSE token(q, MISSING, 0)
    IN  Ret(p, finish_node(
            keys(body(body(trivia(eat(start_node(p, "CITATION"))))))))

curly_group_path(p) ==
    LET RECURSIVE loop(_)
        loop(q) ==
            CASE q.stalled -> q
              [] ~q.stalled /\ peek(q) \in {"COMMENT", "WORD", "EQUALITY_SIGN", "COMMA",
                                            "L_BRACK", "R_BRACK", "GENERIC_COMMAND_NAME"} ->
                    loop(Iter(q, path(q)))
              [] ~q.stalled /\ peek(q) = "L_CURLY" -> loop(Iter(q, curly_group_path(q)))
              [] ~q.stalled /\ peek(q) = "WHITESPACE" -> loop(Iter(q, eat(q)))
              [] OTHER -> q
    IN  Ret(p, finish_node(expect(
            loop(trivia(eat(start_node(p, "CURLY_GROUP_WORD")))), "R_CURLY")))

curly_group_path_list(p) ==
    LET RECURSIVE loop(_)
        loop(q) ==
            CASE q.stalled -> q
              [] ~q.stalled /\ peek(q) \in {"COMMENT", "WORD", "EQUALITY_SIGN", "L_BRACK",
                                            "R_BRACK", "GENERIC_COMMAND_NAME"} ->
                    loop(Iter(q, path(q)))
              [] ~q.stalled /\ peek(q) \in {"WHITESPACE", "LINE_BREAK", "COMMA"} ->
                    loop(Iter(q, eat(q)))
              [] ~q.stalled /\ peek(q) = "L_CURLY" -> loop(Iter(q, curly_group_path(q)))
              [] OTHER -> q
    IN  Ret(p, finish_node(expect(
            loop(trivia(eat(start_node(p, "CURLY_GROUP_WORD_LIST")))), "R_CURLY")))

path(p) ==
    LET RECURSIVE loop(_)
        loop(q) ==
            CASE q.stalled -> q
              [] ~q.stalled /\ peek(q) \in {"WHITESPACE", "COMMENT", "WORD", "EQUALITY_SIGN",
                                            "L_BRACK", "R_BRACK", "GENERIC_COMMAND_NAME"} ->
                    loop(Iter(q, eat(q)))
              [] ~q.stalled /\ peek(q) = "L_CURLY" -> loop(Iter(q, curly_group_path(q)))
              [] OTHER -> q
    IN  Ret(p, finish_node(loop(eat(start_node(p, "KEY")))))

generic_include(p, kind, options) ==
    LET opts(q) ==
            IF options /\ peek(q) = "L_BRACK" THEN brack_group_key_value(q) ELSE q
        paths(q) ==
            IF peek(q) = "L_CURLY" THEN curly_group_path_list(q) ELSE token(q, MISSING, 0)
    IN  Ret(p, finish_node(paths(opts(trivia(eat(start_node(p, kind)))))))

package_include(p) == generic_include(p, "PACKAGE_INCLUDE", TRUE)

class_include(p) == generic_include(p, "CLASS_INCLUDE", TRUE)

latex_include(p) == generic_include(p, "LATEX_INCLUDE", FALSE)

biblatex_include(p) == generic_include(p, "BIBLATEX_INCLUDE", TRUE)

bibtex_include(p) == generic_include(p, "BIBTEX_INCLUDE", FALSE)

graphics_include(p) == generic_include(p, "GRAPHICS_INCLUDE", TRUE)

svg_include(p) == generic_include(p, "SVG_INCLUDE", TRUE)

inkscape_include(p) == generic_include(p, "INKSCAPE_INCLUDE", TRUE)

verbatim_include(p) == generic_include(p, "VERBATIM_INCLUDE", FALSE)

import(p) ==
    LET body(q) ==
            ForIter(q, IF peek(q) = "L_CURLY" THEN curly_group_word(q)
                                             ELSE token(q, MISSING, 0))
    IN  Ret(p, finish_node(
            body(body(trivia(eat(start_node(p, "IMPORT")))))))

label_definition(p) ==
    LET name(q) ==
            IF peek(q) = "L_CURLY" THEN curly_group_word(q) ELSE token(q, MISSING, 0)
    IN  Ret(p, finish_node(
            name(trivia(eat(start_node(p, "LABEL_DEFINITION"))))))

label_reference(p) ==
    LET names(q) ==
            IF peek(q) = "L_CURLY" THEN curly_group_word_list(q) ELSE token(q, MISSING, 0)
    IN  Ret(p, finish_node(
            names(trivia(eat(start_node(p, "LABEL_REFERENCE"))))))

label_reference_range(p) ==
    LET body(q) ==
            ForIter(q, IF peek(q) = "L_CURLY" THEN curly_group_word(q)
                                             ELSE token(q, MISSING, 0))
    IN  Ret(p, finish_node(
            body(body(trivia(eat(start_node(p, "LABEL_REFERENCE_RANGE")))))))

\* label_number that appends nothing after its second brace group
label_number_without_missing(p) ==
    LET name(q) ==
            IF peek(q) = "L_CURLY" THEN curly_group_word(q) ELSE token(q, MISSING, 0)
        number(q) ==
            IF peek(q) = "L_CURLY" THEN curly_group(q) ELSE q
    IN  Ret(p, finish_node(
            number(name(trivia(eat(start_node(p, "LABEL_NUMBER")))))))

label_number(p) ==
    LET name(q) ==
            IF peek(q) = "L_CURLY" THEN curly_group_word(q) ELSE token(q, MISSING, 0)
        number(q) ==
            IF peek(q) = "L_CURLY" THEN token(curly_group(q), MISSING, 0) ELSE q
    IN  Ret(p, finish_node(
            number(name(trivia(eat(start_node(p, "LABEL_NUMBER")))))))

command_definition(p) ==
    LET default(q) ==
            IF peek(q) = "L_BRACK" THEN brack_group(q) ELSE q
        name(q) ==
            IF peek(q) = "L_CURLY" THEN curly_group_command(q) ELSE token(q, MISSING, 0)
        arity(q) ==
            IF peek(q) = "L_BRACK" THEN default(brack_group_word(q)) ELSE q
        implementation(q) ==
            IF peek(q) = "L_CURLY" THEN curly_group_impl(q) ELSE token(q, MISSING, 0)
    IN  Ret(p, finish_node(
            implementation(arity(name(trivia(eat(start_node(p, "COMMAND_DEFINITION"))))))))

\* math_operator with the optional arguments of command_definition
math_operator_with_arity(p) ==
    LET default(q) ==
            IF peek(q) = "L_BRACK" THEN brack_group(q) ELSE q
        name(q) ==
            IF peek(q) = "L_CURLY" THEN curly_group_command(q) ELSE token(q, MISSING, 0)
        arity(q) ==
            IF peek(q) = "L_BRACK" THEN default(brack_group_word(q)) ELSE q
        implementation(q) ==
            IF peek(q) = "L_CURLY" THEN curly_group_impl(q) ELSE token(q, MISSING, 0)
    IN  Ret(p, finish_node(
            implementation(arity(name(trivia(eat(start_node(p, "MATH_OPERATOR"))))))))

math_operator(p) ==
    LET name(q) ==
            IF peek(q) = "L_CURLY" THEN curly_group_command(q) ELSE token(q, MISSING, 0)
        implementation(q) ==
            IF peek(q) = "L_CURLY" THEN curly_group_impl(q) ELSE token(q, MISSING, 0)
    IN  Ret(p, finish_node(
            implementation(name(trivia(eat(start_node(p, "MATH_OPERATOR")))))))

glossary_entry_definition(p) ==
    LET name(q) ==
            IF peek(q) = "L_CURLY" THEN curly_group_word(q) ELSE token(q, MISSING, 0)
        options(q) ==
            IF peek(q) = "L_CURLY" THEN curly_group_key_value(q) ELSE token(q, MISSING, 0)
    IN  Ret(p, finish_node(
            options(name(trivia(eat(start_node(p, "GLOSSARY_ENTRY_DEFINITION")))))))

glossary_entry_reference(p) ==
    LET options(q) ==
            IF peek(q) = "L_BRACK" THEN brack_group_key_value(q) ELSE q
        name(q) ==
            IF peek(q) = "L_CURLY" THEN curly_group_word(q) ELSE token(q, MISSING, 0)
    IN  Ret(p, finish_node(
            name(options(trivia(eat(start_node(p, "GLOSSARY_ENTRY_REFERENCE")))))))

acronym_definition(p) ==
    LET options(q) ==
            IF peek(q) = "L_BRACK" THEN brack_group_key_value(q) ELSE q
        name(q) ==
            IF peek(q) = "L_CURLY" THEN curly_group_word(q) ELSE q
        short(q) ==
            IF peek(q) = "L_BRACK" THEN brack_group(q) ELSE q
        body(q) ==
            ForIter(q, IF peek(q) = "L_CURLY" THEN curly_group(q) ELSE q)
    IN  Ret(p, finish_node(
            body(body(short(name(options(trivia(eat(start_node(p, "ACRONYM_DEFINITION"))))))))))

acronym_declaration(p) ==
    LET name(q) ==
            IF peek(q) = "L_CURLY" THEN curly_group_word(q) ELSE token(q, MISSING, 0)
        options(q) ==
            IF peek(q) = "L_CURLY" THEN curly_group_key_value(q) ELSE token(q, MISSING, 0)
    IN  Ret(p, finish_node(
            options(name(trivia(eat(start_node(p, "ACRONYM_DECLARATION")))))))

acronym_reference(p) ==
    LET options(q) ==
            IF peek(q) = "L_BRACK" THEN brack_group_key_value(q) ELSE q
        name(q) ==
            IF peek(q) = "L_CURLY" THEN curly_group_word(q) ELSE token(q, MISSING, 0)
    IN  Ret(p, finish_node(
            name(options(trivia(eat(start_node(p, "ACRONYM_REFERENCE")))))))

theorem_definition(p) ==
    LET name(q) ==
            IF peek(q) = "L_CURLY" THEN curly_group_word(q) ELSE token(q, MISSING, 0)
        counter(q) ==
            IF peek(q) = "L_BRACK" THEN brack_group_word(q) ELSE q
        description(q) ==
            IF peek(q) = "L_CURLY" THEN curly_group(q) ELSE token(q, MISSING, 0)
        within(q) ==
            IF peek(q) = "L_BRACK" THEN brack_group_word(q) ELSE q
    IN  Ret(p, finish_node(
            within(description(counter(name(trivia(eat(start_node(p, "THEOREM_DEFINITION")))))))))

color_reference(p) ==
    LET name(q) ==
            IF peek(q) = "L_CURLY" THEN curly_group_word(q) ELSE token(q, MISSING, 0)
    IN  Ret(p, finish_node(
            name(trivia(eat(start_node(p, "COLOR_REFERENCE"))))))

color_definition(p) ==
    LET name(q) ==
            IF peek(q) = "L_CURLY" THEN curly_group_word(q) ELSE token(q, MISSING, 0)
        model(q) ==
            IF peek(q) = "L_CURLY" THEN curly_group_word(q) ELSE token(q, MISSING, 0)
        spec(q) ==
            IF peek(q) = "L_CURLY" THEN curly_group(q) ELSE token(q, MISSING, 0)
    IN  Ret(p, finish_node(
            spec(model(name(trivia(eat(start_node(p, "COLOR_DEFINITION"))))))))

color_set_definition(p) ==
    LET model(q) ==
            IF peek(q) = "L_BRACK" THEN brack_group_word(q) ELSE q
        names(q) ==
            IF peek(q) = "L_CURLY" THEN curly_group_word_list(q) ELSE token(q, MISSING, 0)
        body(q) ==
            ForIter(q, IF peek(q) = "L_CURLY" THEN curly_group_word(q)
                                             ELSE token(q, MISSING, 0))
    IN  Ret(p, finish_node(
            body(body(body(names(model(trivia(eat(start_node(p, "COLOR_SET_DEFINITION"))))))))))

tikz_library_import(p) ==
    LET names(q) ==
            IF peek(q) = "L_CURLY" THEN curly_group_word_list(q) ELSE token(q, MISSING, 0)
    IN  Ret(p, finish_node(
            names(trivia(eat(start_node(p, "TIKZ_LIBRARY_IMPORT"))))))

environment_definition(p) ==
    LET default(q) ==
            IF peek(q) = "L_BRACK" THEN brack_group(q) ELSE q
        name(q) ==
            IF peek(q) = "L_CURLY" THEN curly_group_word(q) ELSE token(q, MISSING, 0)
        arity(q) ==
            IF peek(q) = "L_BRACK" THEN default(brack_group_word(q)) ELSE q
        body(q) ==
            ForIter(q, IF peek(q) = "L_CURLY" THEN curly_group_without_environments(q)
                                             ELSE token(q, MISSING, 0))
    IN  Ret(p, finish_node(
            body(body(arity(name(trivia(eat(start_node(p, "ENVIRONMENT_DEFINITION")))))))))

\* graphics_path that takes its checkpoint after the brace and its trivia
graphics_path_late_checkpoint(p) ==
    LET RECURSIVE loop(_)
        loop(q) ==
            IF peek(q) = "L_CURLY" /\ ~q.stalled
            THEN loop(Iter(q, curly_group_path(q)))
            ELSE q
        group(q, cp) ==
            IF peek(q) \in {"WORD", "EQUALITY_SIGN", "L_BRACK", "R_BRACK",
                            "GENERIC_COMMAND_NAME"}
            THEN path(start_node_at(q, cp, "CURLY_GROUP_WORD"))
            ELSE loop(start_node_at(q, cp, "CURLY_GROUP"))
        paths(q) ==
            IF peek(q) = "L_CURLY"
            THEN finish_node(expect(group(trivia(eat(q)), checkpoint(trivia(eat(q)))), "R_CURLY"))
            ELSE q
    IN  Ret(p, finish_node(paths(trivia(eat(start_node(p, "GRAPHICS_PATH"))))))

\* graphics_path that leaves the node opened by start_node_at unfinished
graphics_path_unclosed(p) ==
    LET RECURSIVE loop(_)
        loop(q) ==
            IF peek(q) = "L_CURLY" /\ ~q.stalled
            THEN loop(Iter(q, curly_group_path(q)))
            ELSE q
        group(q, cp) ==
            IF peek(q) \in {"WORD", "EQUALITY_SIGN", "L_BRACK", "R_BRACK",
                            "GENERIC_COMMAND_NAME"}
            THEN path(start_node_at(q, cp, "CURLY_GROUP_WORD"))
            ELSE loop(start_node_at(q, cp, "CURLY_GROUP"))
        paths(q) ==
            IF peek(q) = "L_CURLY"
            THEN expect(group(trivia(eat(q)), checkpoint(q)), "R_CURLY")
            ELSE q
    IN  Ret(p, finish_node(paths(trivia(eat(start_node(p, "GRAPHICS_PATH"))))))

graphics_path(p) ==
    LET RECURSIVE loop(_)
        loop(q) ==
            IF peek(q) = "L_CURLY" /\ ~q.stalled
            THEN loop(Iter(q, curly_group_path(q)))
            ELSE q
        group(q, cp) ==
            IF peek(q) \in {"WORD", "EQUALITY_SIGN", "L_BRACK", "R_BRACK",
                            "GENERIC_COMMAND_NAME"}
            THEN path(start_node_at(q, cp, "CURLY_GROUP_WORD"))
            ELSE loop(start_node_at(q, cp, "CURLY_GROUP"))
        paths(q) ==
            IF peek(q) = "L_CURLY"
            THEN finish_node(expect(group(trivia(eat(q)), checkpoint(q)), "R_CURLY"))
            ELSE q
    IN  Ret(p, finish_node(paths(trivia(eat(start_node(p, "GRAPHICS_PATH"))))))

\* stray closer whose ERROR node also takes the trivia after the closer
stray_closer_with_trivia(p) == finish_node(trivia(eat(start_node(p, "ERROR"))))

\* the arm of content for R_CURLY | R_BRACK | R_PAREN
stray_closer(p) == finish_node(eat(start_node(p, "ERROR")))

\* the rule content dispatches to for the peeked kind
dispatch(p, context, kind) ==
    CASE kind \in {"LINE_BREAK", "WHITESPACE", "COMMENT", "VERBATIM"} -> eat(p)
      [] kind = "L_CURLY" /\ context.allow_environment -> curly_group(p)
      [] kind = "L_CURLY" /\ ~context.allow_environment ->
            curly_group_without_environments(p)
      [] kind \in {"L_BRACK", "L_PAREN"} -> mixed_group(p)
      [] kind \in {"R_CURLY", "R_BRACK", "R_PAREN"} -> stray_closer(p)
      [] kind \in {"WORD", "COMMA"} -> text(p, context)
      [] kind = "EQUALITY_SIGN" -> eat(p)
      [] kind = "DOLLAR" -> formula(p)
      [] kind = "GENERIC_COMMAND_NAME" -> generic_command(p)
      [] kind = "BEGIN_ENVIRONMENT_NAME" /\ context.allow_environment -> environment(p)
      [] kind = "BEGIN_ENVIRONMENT_NAME" /\ ~context.allow_environment ->
            generic_command(p)
      [] kind = "END_ENVIRONMENT_NAME" -> generic_command(p)
      [] kind = "BEGIN_EQUATION_NAME" -> equation(p)
      [] kind = "END_EQUATION_NAME" -> generic_command(p)
      [] kind \in {"MISSING", "ERROR"} -> eat(p)
      [] kind = "PART_NAME" -> part(p)
      [] kind = "CHAPTER_NAME" -> chapter(p)
      [] kind = "SECTION_NAME" -> section(p)
      [] kind = "SUBSECTION_NAME" -> subsection(p)
      [] kind = "SUBSUBSECTION_NAME" -> subsubsection(p)
      [] kind = "PARAGRAPH_NAME" -> paragraph(p)
      [] kind = "SUBPARAGRAPH_NAME" -> subparagraph(p)
      [] kind = "ENUM_ITEM_NAME" -> enum_item(p)
      [] kind = "CAPTION_NAME" -> caption(p)
      [] kind = "CITATION_NAME" -> citation(p)
      [] kind = "PACKAGE_INCLUDE_NAME" -> package_include(p)
      [] kind = "CLASS_INCLUDE_NAME" -> class_include(p)
      [] kind = "LATEX_INCLUDE_NAME" -> latex_include(p)
      [] kind = "BIBLATEX_INCLUDE_NAME" -> biblatex_include(p)
      [] kind = "BIBTEX_INCLUDE_NAME" -> bibtex_include(p)
      [] kind = "GRAPHICS_INCLUDE_NAME" -> graphics_include(p)
      [] kind = "SVG_INCLUDE_NAME" -> svg_include(p)
      [] kind = "INKSCAPE_INCLUDE_NAME" -> inkscape_include(p)
      [] kind = "VERBATIM_INCLUDE_NAME" -> verbatim_include(p)
      [] kind = "IMPORT_NAME" -> import(p)
      [] kind = "LABEL_DEFINITION_NAME" -> label_definition(p)
      [] kind = "LABEL_REFERENCE_NAME" -> label_reference(p)
      [] kind = "LABEL_REFERENCE_RANGE_NAME" -> label_reference_range(p)
      [] kind = "LABEL_NUMBER_NAME" -> label_number(p)
      [] kind = "COMMAND_DEFINITION_NAME" -> command_definition(p)
      [] kind = "MATH_OPERATOR_NAME" -> math_operator(p)
      [] kind = "GLOSSARY_ENTRY_DEFINITION_NAME" -> glossary_entry_definition(p)
      [] kind = "GLOSSARY_ENTRY_REFERENCE_NAME" -> glossary_entry_reference(p)
      [] kind = "ACRONYM_DEFINITION_NAME" -> acronym_definition(p)
      [] kind = "ACRONYM_DECLARATION_NAME" -> acronym_declaration(p)
      [] kind = "ACRONYM_REFERENCE_NAME" -> acronym_reference(p)
      [] kind = "THEOREM_DEFINITION_NAME" -> theorem_definition(p)
      [] kind = "COLOR_REFERENCE_NAME" -> color_reference(p)
      [] kind = "COLOR_DEFINITION_NAME" -> color_definition(p)
      [] kind = "COLOR_SET_DEFINITION_NAME" -> color_set_definition(p)
      [] kind = "TIKZ_LIBRARY_IMPORT_NAME" -> tikz_library_import(p)
      [] kind = "ENVIRONMENT_DEFINITION_NAME" -> environment_definition(p)
      [] kind = "BEGIN_BLOCK_COMMENT_NAME" -> block_comment(p)
      [] kind = "END_BLOCK_COMMENT_NAME" -> generic_command(p)
      [] kind = "GRAPHICS_PATH_NAME" -> graphics_path(p)
      [] OTHER -> Panic(p, "unreachable")

\* content was called with this context on the Parser value p
Called(p, context) ==
    [p EXCEPT !.calls = @ \cup {<<context.allow_environment, context.allow_comma, peek(p)>>}]

content(p, context) ==
    IF peek(p) = None
    THEN Panic(Called(p, context), "content")
    ELSE Ret(p, Consumes(p, dispatch(Called(p, context), context, peek(p))))

\* GreenNodeBuilder::finish
finish(p) ==
    IF p.parents = <<>> /\ Len(p.children) = 1 /\ p.children[1].node
    THEN p
    ELSE Panic(p, "finish")

---------------------------------------------------------------------------
(* Parser::parse as a state machine.                                       *)

SeqsUpTo(S, n) == UNION {[1..k -> S] : k \in 0..n}

\* a command token followed by brackets and words
CommandInputs == {<<k>> \o a : k \in CommandNames, a \in SeqsUpTo(ArgKinds, MaxArgs)}

\* an opening bracket or parenthesis, alone or as the optional argument of
\* a command, followed by sectioning commands, braces and words
BracketedInputs ==
    {h \o a : h \in {<<"L_BRACK">>, <<"L_PAREN">>, <<"CAPTION_NAME", "L_BRACK">>,
                      <<"ENUM_ITEM_NAME", "L_BRACK">>},
              a \in SeqsUpTo(SectionKinds \cup {"WORD"}, MaxLenBracketed)}

\* the commands whose argument is parsed by curly_group_word_list
ListCommands ==
    {"CITATION_NAME", "LABEL_REFERENCE_NAME", "TIKZ_LIBRARY_IMPORT_NAME",
     "COLOR_SET_DEFINITION_NAME"}

\* such a command, an opening brace, and words, commas, trivia and closing braces
ListInputs ==
    {<<k, "L_CURLY">> \o a :
        k \in ListCommands,
        a \in SeqsUpTo(TriviaKinds \cup {"WORD", "COMMA", "R_CURLY"}, MaxLenList)}

\* the arguments of a command definition, each present or absent:
\* { \x }  [ 2 ]  [ default ]  { body }
DefinedName == <<"L_CURLY", "GENERIC_COMMAND_NAME", "R_CURLY">>

Bracketed == <<"L_BRACK", "WORD", "R_BRACK">>

Braced == <<"L_CURLY", "WORD", "R_CURLY">>

DefinitionInputs ==
    {<<k>> \o n \o a \o d \o b :
        k \in {"COMMAND_DEFINITION_NAME", "MATH_OPERATOR_NAME"},
        n \in {<<>>, DefinedName}, a \in {<<>>, Bracketed}, d \in {<<>>, Bracketed},
        b \in {<<>>, Braced}}

\* \newenvironment{}{ : the opening of the first body argument
InDefinitionBody == <<"ENVIRONMENT_DEFINITION_NAME", "L_CURLY", "R_CURLY", "L_CURLY">>

\* a command with a bracketed key-value argument, at top level or in the
\* body argument of an environment definition, followed by keys, values,
\* commas, closers and \end
KeyValueInputs ==
    {h \o <<"GLOSSARY_ENTRY_REFERENCE_NAME", "L_BRACK">> \o a :
        h \in {<<>>, InDefinitionBody},
        a \in SeqsUpTo({"WORD", "EQUALITY_SIGN", "COMMA", "R_PAREN", "R_BRACK",
                        "END_ENVIRONMENT_NAME"}, MaxLenKeyValue)}

\* the body argument of an environment definition, holding \begin, \end,
\* braces, a bracket, a dollar and generic commands
ProtectedInputs ==
    {InDefinitionBody \o a :
        a \in SeqsUpTo({"BEGIN_ENVIRONMENT_NAME", "END_ENVIRONMENT_NAME", "L_CURLY",
                        "R_CURLY", "L_BRACK", "DOLLAR", "GENERIC_COMMAND_NAME"},
                       MaxLenProtected)}

\* \graphicspath followed by spaces, braces and the tokens of paths
PathInputs ==
    {<<"GRAPHICS_PATH_NAME">> \o a :
        a \in SeqsUpTo({"WHITESPACE", "L_CURLY", "R_CURLY", "WORD", "EQUALITY_SIGN",
                        "GENERIC_COMMAND_NAME"}, MaxLenPath)}

Inputs ==
    SeqsUpTo(TokenKinds, MaxLenAll) \cup SeqsUpTo(CoreKinds, MaxLenCore)
        \cup SeqsUpTo(SectionKinds, MaxLenSections) \cup CommandInputs
        \cup BracketedInputs \cup ListInputs \cup DefinitionInputs \cup KeyValueInputs
        \cup ProtectedInputs \cup PathInputs

NoTree == Leaf(None, 0)

\* where parse goes after a step that left the Parser value q
Goto(q, next) ==
    IF q.panics # {} THEN "panicked" ELSE IF q.stalled THEN "diverged" ELSE next

Init ==
    /\ input \in Inputs
    /\ parser = new
    /\ pc = "start"
    /\ green = NoTree

StartRoot ==
    /\ pc = "start"
    /\ parser' = start_node(parser, "ROOT")
    /\ pc' = "preamble"
    /\ UNCHANGED <<input, green>>

Preamble ==
    /\ pc = "preamble"
    /\ parser' = preamble(parser)
    /\ pc' = Goto(parser', "body")
    /\ UNCHANGED <<input, green>>

BodyContent ==
    /\ pc = "body"
    /\ peek(parser) # None
    /\ parser' = Iter(parser, content(parser, DefaultContext))
    /\ pc' = Goto(parser', "body")
    /\ UNCHANGED <<input, green>>

FinishRoot ==
    /\ pc = "body"
    /\ peek(parser) = None
    /\ parser' = finish_node(parser)
    /\ pc' = Goto(parser', "finish")
    /\ UNCHANGED <<input, green>>

Finish ==
    /\ pc = "finish"
    /\ parser' = finish(parser)
    /\ pc' = Goto(parser', "done")
    /\ green' = IF parser'.panics = {} THEN parser.children[1] ELSE green
    /\ UNCHANGED input

Next == StartRoot \/ Preamble \/ BodyContent \/ FinishRoot \/ Finish

Spec == Init /\ [][Next]_vars

---------------------------------------------------------------------------
(* Reading the tree.                                                       *)

Range(f) == {f[i] : i \in DOMAIN f}

RECURSIVE Desc(_)
\* an element and everything below it
Desc(e) == {e} \cup UNION {Desc(e.children[i]) : i \in DOMAIN e.children}

RECURSIVE LeavesOf(_)
RECURSIVE LeavesOfSeq(_)
\* the leaves below an element, in document order
LeavesOf(e) == IF e.node THEN LeavesOfSeq(e.children) ELSE <<e>>

LeavesOfSeq(es) == IF es = <<>> THEN <<>> ELSE LeavesOf(Head(es)) \o LeavesOfSeq(Tail(es))

IsMissing(e) == ~e.node /\ e.kind = MISSING /\ e.text = 0

IsToken(e, kinds) == ~e.node /\ e.text # 0 /\ e.kind \in kinds

IsNode(e, kinds) == e.node /\ e.kind \in kinds

\* the leaves that carry text
TextLeaves(es) == SelectSeq(LeavesOfSeq(es), LAMBDA l : l.text # 0)

\* the lexer's tokens 1..n as leaves
TokenLeaves(n) == [i \in 1..n |-> Leaf(input[i], i)]

\* every element the builder holds, finished or returned
Built == UNION {Desc(parser.children[i]) : i \in DOMAIN parser.children}

\* the kind of the token that follows the last token of an element
LastText(e) ==
    LET ls == TextLeaves(<<e>>) IN IF ls = <<>> THEN 0 ELSE ls[Len(ls)].text

NextKind(e) == IF LastText(e) < Len(input) THEN input[LastText(e) + 1] ELSE None

---------------------------------------------------------------------------
(* C1  Fidelity.                                                           *)

\* C1: at every step the leaves the builder holds, without the zero-length
\* MISSING leaves, are exactly the tokens the lexer has handed out, in order,
\* each once; and when parse has returned the lexer is exhausted and the
\* returned tree's leaves are the whole input.
C1_Fidelity ==
    /\ TextLeaves(parser.children) = TokenLeaves(parser.pos - 1)
    /\ \A l \in Range(LeavesOfSeq(parser.children)) : l.text = 0 => l.kind = MISSING
    /\ pc = "done" =>
         /\ parser.pos = Len(input) + 1
         /\ TextLeaves(<<green>>) = TokenLeaves(Len(input))

\* a finished parse of three or more tokens whose tree holds a MISSING leaf
C1_Witness ==
    /\ pc = "done"
    /\ Len(input) >= 3
    /\ \E l \in Range(LeavesOf(green)) : IsMissing(l)

---------------------------------------------------------------------------
(* C2  Totality.                                                           *)

\* C2 (as amended): parse never stops short of returning (in each of its
\* states but the last a step of parse is enabled), and the tree it returns
\* has kind ROOT; every call of content and every iteration of every
\* while loop consumes at least one token.  (The for loops of fixed count
\* are not covered: see C2_EveryLoopConsumes.)
C2_Totality ==
    /\ ~parser.stalled
    /\ pc \in {"start", "preamble", "body", "finish", "done"}
    /\ pc = "done" => IsNode(green, {"ROOT"})

\* parse has returned for the empty input, and for an input of one token
\* that content was called on
C2_Witness ==
    /\ pc = "done"
    /\ Len(input) = 1
    /\ parser.calls # {}
    /\ IsNode(green, {"ROOT"})

\* C2 as stated: on top of totality, every iteration of every loop of every
\* rule, the for loops included, consumes at least one token.
C2_EveryLoopConsumes == C2_Totality /\ ~parser.idle

---------------------------------------------------------------------------
(* C3  No panic.                                                           *)

\* C3: eat is never called at the end of input, content is never called
\* when peek is none, and the default arm of content's dispatch is never
\* taken.
C3_NoPanic ==
    /\ parser.panics \cap {"eat", "content", "unreachable"} = {}
    /\ pc # "panicked"

\* a finished parse in which a rule ran into the end of input (it left a
\* MISSING leaf as the last leaf of the tree) after content had been called
C3_Witness ==
    /\ pc = "done"
    /\ parser.calls # {}
    /\ LET ls == LeavesOf(green) IN ls # <<>> /\ IsMissing(ls[Len(ls)])

---------------------------------------------------------------------------
(* C4  Well-nestedness.                                                    *)

\* C4: every rule returns with as many open nodes as it was entered with,
\* finish_node never finds the stack of open nodes empty, start_node_at
\* never wraps across an open node, ROOT is the only open node between the
\* rules parse calls, and no node is open when parse calls finish.
C4_WellNested ==
    /\ ~parser.unbalanced
    /\ parser.panics \cap {"finish_node", "start_node_at", "finish"} = {}
    /\ pc \in {"preamble", "body"} =>
         /\ Len(parser.parents) = 1
         /\ parser.parents[1].kind = "ROOT"
    /\ pc \in {"finish", "done"} => parser.parents = <<>>

\* parse is about to call finish after graphics_path wrapped a brace group
\* with start_node_at
C4_Witness ==
    /\ pc = "finish"
    /\ parser.parents = <<>>
    /\ \E e \in Built :
         /\ IsNode(e, {"GRAPHICS_PATH"})
         /\ \E i \in DOMAIN e.children : IsNode(e.children[i], {"CURLY_GROUP_WORD"})

---------------------------------------------------------------------------
(* C5  Preamble extent.                                                    *)

\* the children of ROOT, once preamble has returned
RootChildren ==
    CASE pc = "body" -> parser.children
      [] pc \in {"finish", "done"} -> parser.children[1].children
      [] OTHER -> <<>>

\* the node kind of a sectioning command
SectionNode(name) ==
    CASE name = "PART_NAME" -> "PART"
      [] name = "CHAPTER_NAME" -> "CHAPTER"
      [] name = "SECTION_NAME" -> "SECTION"
      [] name = "SUBSECTION_NAME" -> "SUBSECTION"
      [] name = "SUBSUBSECTION_NAME" -> "SUBSUBSECTION"
      [] name = "PARAGRAPH_NAME" -> "PARAGRAPH"
      [] name = "SUBPARAGRAPH_NAME" -> "SUBPARAGRAPH"

SectionNodes == {SectionNode(name) : name \in SectionNames}

\* C5: once preamble has returned, the first child of ROOT is a PREAMBLE
\* node and no other node of the tree is a PREAMBLE; the token after the
\* preamble is the end of input or END_ENVIRONMENT_NAME; a sectioning
\* command that opens the input heads the first child of PREAMBLE; and a
\* second child of ROOT is a GENERIC_COMMAND whose first child is the token
\* END_ENVIRONMENT_NAME.
C5_PreambleExtent ==
    pc \in {"body", "finish", "done"} =>
        /\ RootChildren # <<>>
        /\ IsNode(RootChildren[1], {"PREAMBLE"})
        /\ \A i \in DOMAIN RootChildren : \A e \in Desc(RootChildren[i]) :
             IsNode(e, {"PREAMBLE"}) => i = 1 /\ e = RootChildren[1]
        /\ NextKind(RootChildren[1]) \in {None, "END_ENVIRONMENT_NAME"}
        /\ (input # <<>> /\ input[1] \in SectionNames) =>
             /\ RootChildren[1].children # <<>>
             /\ IsNode(RootChildren[1].children[1], {SectionNode(input[1])})
             /\ RootChildren[1].children[1].children[1] = Leaf(input[1], 1)
        /\ Len(RootChildren) >= 2 =>
             /\ IsNode(RootChildren[2], {"GENERIC_COMMAND"})
             /\ IsToken(RootChildren[2].children[1], {"END_ENVIRONMENT_NAME"})

\* a finished parse whose PREAMBLE holds a section and whose ROOT has a
\* second child
C5_Witness ==
    /\ pc = "done"
    /\ Len(RootChildren) >= 2
    /\ RootChildren[1].children # <<>>
    /\ IsNode(RootChildren[1].children[1], SectionNodes)

---------------------------------------------------------------------------
(* C6  Stray closers.                                                      *)

Closers == {"R_CURLY", "R_BRACK", "R_PAREN"}

\* C6: every ERROR node has exactly one child, the token of a closer that
\* content was called on; and the input of the single token R_CURLY yields
\* ROOT(PREAMBLE(ERROR(R_CURLY))).
C6_StrayClosers ==
    /\ \A e \in Built :
         IsNode(e, {"ERROR"}) =>
            /\ Len(e.children) = 1
            /\ IsToken(e.children[1], Closers)
            /\ \E c \in parser.calls : c[3] = e.children[1].kind
    /\ (pc = "done" /\ input = <<"R_CURLY">>) =>
         green = Node("ROOT", <<Node("PREAMBLE", <<Node("ERROR", <<Leaf("R_CURLY", 1)>>)>>)>>)

\* a finished parse of an input that opens with R_CURLY and goes on with
\* trivia, the R_CURLY alone in its ERROR node
C6_Witness ==
    /\ pc = "done"
    /\ Len(input) >= 2
    /\ input[1] = "R_CURLY"
    /\ input[2] \in TriviaKinds
    /\ Node("ERROR", <<Leaf("R_CURLY", 1)>>) \in Desc(green)

---------------------------------------------------------------------------
(* C7  Group closing.                                                      *)

CurlyGroups ==
    {"CURLY_GROUP", "CURLY_GROUP_WORD", "CURLY_GROUP_WORD_LIST", "CURLY_GROUP_COMMAND",
     "CURLY_GROUP_KEY_VALUE"}

BrackGroups == {"BRACK_GROUP", "BRACK_GROUP_WORD", "BRACK_GROUP_KEY_VALUE"}

GroupKinds == CurlyGroups \cup BrackGroups \cup {"MIXED_GROUP"}

OpenersOf(kind) ==
    CASE kind \in CurlyGroups -> {"L_CURLY"}
      [] kind \in BrackGroups -> {"L_BRACK"}
      [] OTHER -> {"L_BRACK", "L_PAREN"}

ClosersOf(kind) ==
    CASE kind \in CurlyGroups -> {"R_CURLY"}
      [] kind \in BrackGroups -> {"R_BRACK"}
      [] OTHER -> {"R_BRACK", "R_PAREN"}

\* the group's closer is among its children and only trivia follows it
Closed(g) ==
    \E j \in 2..Len(g.children) :
        /\ IsToken(g.children[j], ClosersOf(g.kind))
        /\ \A i \in (j + 1)..Len(g.children) : IsToken(g.children[i], TriviaKinds)

\* C7: every group node has its opener token as first child and ends with
\* its closer followed only by trivia, or with a MISSING leaf, never both;
\* it ends with MISSING only where the token after the group is the end of
\* input or not a closer of the group; and the input of the single token
\* L_CURLY yields ROOT(PREAMBLE(CURLY_GROUP(L_CURLY, MISSING))).
C7_GroupClosing ==
    /\ \A g \in Built :
         IsNode(g, GroupKinds) =>
            /\ IsToken(g.children[1], OpenersOf(g.kind))
            /\ Closed(g) # IsMissing(g.children[Len(g.children)])
            /\ IsMissing(g.children[Len(g.children)]) =>
                 NextKind(g) \notin ClosersOf(g.kind)
    /\ (pc = "done" /\ input = <<"L_CURLY">>) =>
         green = Node("ROOT", <<Node("PREAMBLE",
                    <<Node("CURLY_GROUP", <<Leaf("L_CURLY", 1), Leaf(MISSING, 0)>>)>>)>>)

\* a finished parse with a MIXED_GROUP opened by L_BRACK and closed by
\* R_PAREN, and a group that ends with MISSING in front of a token
C7_Witness ==
    /\ pc = "done"
    /\ \E g \in Desc(green) :
         /\ IsNode(g, {"MIXED_GROUP"})
         /\ IsToken(g.children[1], {"L_BRACK"})
         /\ \E j \in DOMAIN g.children : IsToken(g.children[j], {"R_PAREN"})
    /\ \E g \in Desc(green) :
         /\ IsNode(g, GroupKinds)
         /\ IsMissing(g.children[Len(g.children)])
         /\ NextKind(g) # None

---------------------------------------------------------------------------
(* C8  expect and expect2, called by a rule that has opened a node and     *)
(* eaten some tokens.                                                      *)

ExpectKinds == Closers \cup {"WHITESPACE", "COMMENT", "WORD"}

InitExpect ==
    /\ input \in SeqsUpTo(ExpectKinds, MaxLenExpect)
    /\ parser = new
    /\ pc = "start"
    /\ green = NoTree

OpenNode ==
    /\ pc = "start"
    /\ \E kind \in {"CURLY_GROUP", "MIXED_GROUP"} : parser' = start_node(parser, kind)
    /\ pc' = "open"
    /\ UNCHANGED <<input, green>>

EatToken ==
    /\ pc = "open"
    /\ peek(parser) # None
    /\ parser' = eat(parser)
    /\ pc' = "open"
    /\ UNCHANGED <<input, green>>

ExpectCall ==
    /\ pc = "open"
    /\ \E kind \in ExpectKinds : parser' = expect(parser, kind)
    /\ pc' = "expected"
    /\ UNCHANGED <<input, green>>

Expect2Call ==
    /\ pc = "open"
    /\ \E kind1, kind2 \in ExpectKinds : parser' = expect2(parser, kind1, kind2)
    /\ pc' = "expected"
    /\ UNCHANGED <<input, green>>

CloseNode ==
    /\ pc = "expected"
    /\ parser' = finish_node(parser)
    /\ pc' = "closed"
    /\ UNCHANGED <<input, green>>

NextExpect == OpenNode \/ EatToken \/ ExpectCall \/ Expect2Call \/ CloseNode

SpecExpect == InitExpect /\ [][NextExpect]_vars

\* the position after the maximal run of trivia that starts at position i
TriviaEnd(i) ==
    CHOOSE j \in i..(Len(input) + 1) :
        /\ \A m \in i..(j - 1) : input[m] \in TriviaKinds
        /\ j <= Len(input) => input[j] \notin TriviaKinds

\* what a call that accepts the kinds in accepted makes of p
ExpectEffect(p, q, accepted) ==
    /\ q.parents = p.parents
    /\ q.panics = p.panics
    /\ IF peek(p) \in accepted
       THEN /\ q.pos = TriviaEnd(p.pos + 1)
            /\ q.children =
                 p.children \o [i \in 1..(q.pos - p.pos) |->
                                  Leaf(input[p.pos + i - 1], p.pos + i - 1)]
            /\ peek(q) \notin TriviaKinds
       ELSE /\ q.pos = p.pos
            /\ q.children = Append(p.children, Leaf(MISSING, 0))

\* C8: a call of expect or expect2 on a next token of an accepted kind
\* appends that token and the maximal run of trivia after it to the
\* children of the open node, and leaves a next token that is not trivia;
\* on any other next token, or none, it appends one zero-length MISSING
\* leaf and leaves the lexer where it was; either way the open nodes stay
\* as they were.
C8_ExpectFrame ==
    [][pc' = "expected" =>
         \A kind1, kind2 \in ExpectKinds :
            /\ parser' = expect(parser, kind1) =>
                 ExpectEffect(parser, parser', {kind1})
            /\ parser' = expect2(parser, kind1, kind2) =>
                 ExpectEffect(parser, parser', {kind1, kind2})]_vars

\* expect has taken a closer and the run of two trivia tokens after it
C8_Witness ==
    /\ pc = "expected"
    /\ input = <<"R_BRACK", "WHITESPACE", "COMMENT">>
    /\ parser.pos = 4
    /\ Len(parser.children) = 3

---------------------------------------------------------------------------
(* C9  Environment shape.                                                  *)

\* a GENERIC_COMMAND headed by END_ENVIRONMENT_NAME
IsStrayEnd(e) ==
    IsNode(e, {"GENERIC_COMMAND"}) /\ IsToken(e.children[1], {"END_ENVIRONMENT_NAME"})

\* an ERROR node around R_CURLY
IsStrayCurly(e) == IsNode(e, {"ERROR"}) /\ IsToken(e.children[1], {"R_CURLY"})

\* C9: every ENVIRONMENT node has a BEGIN node as first child and no other
\* BEGIN child; its last child is an END node or a MISSING leaf and no
\* other child is an END; the END is headed by the END_ENVIRONMENT_NAME the
\* body stopped at, and MISSING stands only in front of R_CURLY or the end
\* of input; no END_ENVIRONMENT_NAME or R_CURLY at the level of the body
\* has become a child of the environment.
C9_EnvironmentShape ==
    \A e \in Built :
        IsNode(e, {"ENVIRONMENT"}) =>
            LET n == Len(e.children) IN
            /\ n >= 2
            /\ IsNode(e.children[1], {"BEGIN"})
            /\ IsToken(e.children[1].children[1], {"BEGIN_ENVIRONMENT_NAME"})
            /\ \A i \in 2..n : ~IsNode(e.children[i], {"BEGIN"})
            /\ IsNode(e.children[n], {"END"}) \/ IsMissing(e.children[n])
            /\ \A i \in 1..(n - 1) : ~IsNode(e.children[i], {"END"})
            /\ IsNode(e.children[n], {"END"}) =>
                 IsToken(e.children[n].children[1], {"END_ENVIRONMENT_NAME"})
            /\ IsMissing(e.children[n]) => NextKind(e) \in {None, "R_CURLY"}
            /\ \A i \in 2..(n - 1) :
                 ~IsStrayEnd(e.children[i]) /\ ~IsStrayCurly(e.children[i])

\* a finished parse with an environment inside an environment: the inner
\* one has the END, the outer one ends with MISSING
C9_Witness ==
    /\ pc = "done"
    /\ \E e \in Desc(green) :
         /\ IsNode(e, {"ENVIRONMENT"})
         /\ IsMissing(e.children[Len(e.children)])
         /\ \E i \in DOMAIN e.children :
              /\ IsNode(e.children[i], {"ENVIRONMENT"})
              /\ IsNode(e.children[i].children[Len(e.children[i].children)], {"END"})

---------------------------------------------------------------------------
(* C10  Section hierarchy.                                                 *)

Rank(kind) ==
    CASE kind = "PART" -> 1
      [] kind = "CHAPTER" -> 2
      [] kind = "SECTION" -> 3
      [] kind = "SUBSECTION" -> 4
      [] kind = "SUBSUBSECTION" -> 5
      [] kind = "PARAGRAPH" -> 6
      [] kind = "SUBPARAGRAPH" -> 7

\* the sectioning commands of the level of kind or above
AtOrAbove(kind) == {name \in SectionNames : Rank(SectionNode(name)) <= Rank(kind)}

\* C10: the token after a sectioning node is the end of input,
\* END_ENVIRONMENT_NAME, R_CURLY or a sectioning command of its level or
\* above; a sectioning node that is a direct child of a sectioning node is
\* of strictly lower level; and no END_ENVIRONMENT_NAME or R_CURLY at the
\* level of the body has become a child of the sectioning node.
C10_SectionHierarchy ==
    \A s \in Built :
        IsNode(s, SectionNodes) =>
            /\ IsToken(s.children[1], {name \in SectionNames : SectionNode(name) = s.kind})
            /\ NextKind(s) \in {None, "END_ENVIRONMENT_NAME", "R_CURLY"} \cup AtOrAbove(s.kind)
            /\ \A i \in DOMAIN s.children :
                 /\ IsNode(s.children[i], SectionNodes) =>
                      Rank(s.children[i].kind) > Rank(s.kind)
                 /\ ~IsStrayEnd(s.children[i])
                 /\ ~IsStrayCurly(s.children[i])

\* a finished parse with a SECTION that holds a SUBSECTION and is followed
\* by a sectioning command of its level or above
C10_Witness ==
    /\ pc = "done"
    /\ \E s \in Desc(green) :
         /\ IsNode(s, {"SECTION"})
         /\ \E i \in DOMAIN s.children : IsNode(s.children[i], {"SUBSECTION"})
         /\ NextKind(s) \in AtOrAbove("SECTION")

---------------------------------------------------------------------------
(* C11  Brackets and sectioning commands.                                  *)

\* C11: no sectioning node of any of the seven levels is a direct child of
\* a BRACK_GROUP or MIXED_GROUP node, and such a group that ends with
\* MISSING for want of its closer has taken in no sectioning command.
C11_BracketsStopAtSections ==
    \A g \in Built :
        IsNode(g, {"BRACK_GROUP", "MIXED_GROUP"}) =>
            \A i \in DOMAIN g.children : ~IsNode(g.children[i], SectionNodes)

---------------------------------------------------------------------------
(* C12  Word lists.                                                        *)

\* the nodes whose rule calls curly_group_word_list
ListOwners == {"CITATION", "LABEL_REFERENCE", "TIKZ_LIBRARY_IMPORT", "COLOR_SET_DEFINITION"}

\* the CURLY_GROUP_WORD_LIST nodes built by curly_group_word_list
WordLists ==
    {g \in UNION {Range(n.children) : n \in {m \in Built : IsNode(m, ListOwners)}} :
        IsNode(g, {"CURLY_GROUP_WORD_LIST"})}

IsWord(e) == IsToken(e, {"WORD"})

IsKey(e) == IsNode(e, {"KEY"})

\* how many elements of a sequence are KEY nodes, WORD tokens, trivia tokens
Keys(es) == Cardinality({i \in DOMAIN es : IsKey(es[i])})

Words(es) == Cardinality({i \in DOMAIN es : IsWord(es[i])})

Trivia(es) == Cardinality({i \in DOMAIN es : IsToken(es[i], TriviaKinds)})

\* C12 (as amended): in a CURLY_GROUP_WORD_LIST built by
\* curly_group_word_list no WORD is a direct child: every WORD is in a KEY
\* child, which starts with a WORD and holds only WORD, WHITESPACE, COMMENT
\* and LINE_BREAK tokens, so that there are at most as many KEY children
\* as WORD tokens; every COMMA of the list is a direct leaf child, and so
\* is every trivia token but those that follow a word: no trivia leaf
\* child comes right after a KEY child.
C12_WordListShape ==
    \A g \in WordLists :
        /\ \A i \in DOMAIN g.children :
             LET c == g.children[i] IN
             /\ \/ IsKey(c)
                \/ IsMissing(c)
                \/ IsToken(c, TriviaKinds \cup {"L_CURLY", "COMMA", "R_CURLY"})
             /\ IsKey(c) =>
                  /\ IsWord(c.children[1])
                  /\ \A j \in DOMAIN c.children :
                       IsToken(c.children[j], TriviaKinds \cup {"WORD"})
             /\ (i > 1 /\ IsToken(c, TriviaKinds)) => ~IsKey(g.children[i - 1])
        /\ Keys(g.children) <= Words(LeavesOf(g))

\* a word list whose KEY child holds two words and the space between them
C12_Witness ==
    /\ pc = "done"
    /\ \E g \in WordLists :
         \E i \in DOMAIN g.children :
            /\ IsKey(g.children[i])
            /\ Words(g.children[i].children) = 2
            /\ Trivia(g.children[i].children) = 1

\* C12 as stated: there are as many KEY children as WORD tokens in the
\* list, and every trivia token and COMMA of the list is a direct leaf
\* child of the CURLY_GROUP_WORD_LIST node.
C12_OneKeyPerWord ==
    \A g \in WordLists :
        /\ Keys(g.children) = Words(LeavesOf(g))
        /\ \A l \in Range(LeavesOf(g)) :
             IsToken(l, TriviaKinds \cup {"COMMA"}) => l \in Range(g.children)

---------------------------------------------------------------------------
(* C13  Command definitions and math operators.                            *)

\* the kinds of the children of a node, trivia tokens left out and MISSING
\* standing for a MISSING leaf
Shape(n) ==
    LET nt == SelectSeq(n.children, LAMBDA e : ~IsToken(e, TriviaKinds))
    IN  [i \in DOMAIN nt |-> nt[i].kind]

\* the finished tree holds no MISSING leaf
Complete == \A l \in Range(LeavesOf(green)) : ~IsMissing(l)

\* C13 (as amended): a COMMAND_DEFINITION holds the command token, a
\* CURLY_GROUP_COMMAND or MISSING, then possibly a BRACK_GROUP_WORD and
\* after it possibly a BRACK_GROUP, then a CURLY_GROUP or MISSING; a
\* MATH_OPERATOR holds the command token, a CURLY_GROUP_COMMAND or MISSING
\* and a CURLY_GROUP or MISSING, and never a bracket group; MISSING stands
\* only where the next token is not L_CURLY.  For name { \x } [ 2 ] { body }
\* command_definition yields one node with the three groups and no MISSING
\* leaf, while math_operator ends with MISSING in front of the bracket.
C13_DefinitionShapes ==
    LET NameSlot == {<<"CURLY_GROUP_COMMAND">>, <<MISSING>>}
        BodySlot == {<<"CURLY_GROUP">>, <<MISSING>>}
    IN
    /\ \A n \in Built :
         /\ IsNode(n, {"COMMAND_DEFINITION"}) =>
              Shape(n) \in {<<"COMMAND_DEFINITION_NAME">> \o a \o b \o c :
                              a \in NameSlot,
                              b \in {<<>>, <<"BRACK_GROUP_WORD">>,
                                     <<"BRACK_GROUP_WORD", "BRACK_GROUP">>},
                              c \in BodySlot}
         /\ IsNode(n, {"MATH_OPERATOR"}) =>
              Shape(n) \in {<<"MATH_OPERATOR_NAME">> \o a \o c :
                              a \in NameSlot, c \in BodySlot}
         /\ IsNode(n, {"COMMAND_DEFINITION", "MATH_OPERATOR"}) =>
              /\ IsMissing(n.children[Len(n.children)]) => NextKind(n) # "L_CURLY"
              /\ Shape(n)[2] = MISSING => NextKind(n.children[1]) # "L_CURLY"
    /\ (pc = "done" /\ input = <<"COMMAND_DEFINITION_NAME">> \o DefinedName \o Bracketed \o Braced) =>
         /\ Shape(green) = <<"PREAMBLE">>
         /\ Shape(green.children[1]) = <<"COMMAND_DEFINITION">>
         /\ Shape(green.children[1].children[1]) =
              <<"COMMAND_DEFINITION_NAME", "CURLY_GROUP_COMMAND", "BRACK_GROUP_WORD",
                "CURLY_GROUP">>
         /\ Complete
    /\ (pc = "done" /\ input = <<"MATH_OPERATOR_NAME">> \o DefinedName \o Bracketed \o Braced) =>
         /\ Shape(green) = <<"PREAMBLE">>
         /\ Shape(green.children[1]) = <<"MATH_OPERATOR", "MIXED_GROUP", "CURLY_GROUP">>
         /\ Shape(green.children[1].children[1]) =
              <<"MATH_OPERATOR_NAME", "CURLY_GROUP_COMMAND", MISSING>>

\* math_operator has returned for name { \x } [ 2 ] { body }
C13_Witness ==
    /\ pc = "done"
    /\ input = <<"MATH_OPERATOR_NAME">> \o DefinedName \o Bracketed \o Braced
    /\ \E n \in Desc(green) : IsNode(n, {"MATH_OPERATOR"})

\* C13 as stated: for name { \x } [ 2 ] { body } each of the two rules
\* yields one node that holds CURLY_GROUP_COMMAND, BRACK_GROUP_WORD and a
\* CURLY_GROUP, and the tree has no MISSING leaf.
C13_SameShape ==
    \A k \in {"COMMAND_DEFINITION_NAME", "MATH_OPERATOR_NAME"} :
        (pc = "done" /\ input = <<k>> \o DefinedName \o Bracketed \o Braced) =>
            /\ Len(green.children[1].children) = 1
            /\ Shape(green.children[1].children[1]) =
                 <<k, "CURLY_GROUP_COMMAND", "BRACK_GROUP_WORD", "CURLY_GROUP">>
            /\ Complete

---------------------------------------------------------------------------
(* C14  The end of a VALUE.                                                *)

\* C14: the token after a VALUE node is COMMA, a closer, END_ENVIRONMENT_NAME
\* or the end of input, and no VALUE node has as direct child an ERROR node
\* around R_PAREN or a GENERIC_COMMAND headed by END_ENVIRONMENT_NAME.
C14_ValueStops ==
    \A v \in Built :
        IsNode(v, {"VALUE"}) =>
            /\ NextKind(v) \in {None, "COMMA", "END_ENVIRONMENT_NAME"} \cup Closers
            /\ \A i \in DOMAIN v.children :
                 /\ ~IsStrayEnd(v.children[i])
                 /\ ~(IsNode(v.children[i], {"ERROR"})
                        /\ IsToken(v.children[i].children[1], {"R_PAREN"}))

---------------------------------------------------------------------------
(* C15  Commas in values.                                                  *)

\* C15: content is never called with allow_comma = false on COMMA; a TEXT
\* node built by text with allow_comma = false (a TEXT child of a VALUE)
\* holds no COMMA; and a COMMA that follows such a TEXT follows the VALUE
\* too, or the VALUE goes on with something that is not text.
C15_NoCommaInValueText ==
    /\ \A c \in parser.calls : ~c[2] => c[3] # "COMMA"
    /\ \A v \in Built :
         IsNode(v, {"VALUE"}) =>
            \A i \in DOMAIN v.children :
               IsNode(v.children[i], {"TEXT"}) =>
                  /\ \A l \in Range(LeavesOf(v.children[i])) : ~IsToken(l, {"COMMA"})
                  /\ NextKind(v.children[i]) = "COMMA" =>
                       i = Len(v.children) /\ NextKind(v) = "COMMA"

\* a finished parse with a VALUE that ends with a TEXT in front of a COMMA
C15_Witness ==
    /\ pc = "done"
    /\ \E v \in Desc(green) :
         /\ IsNode(v, {"VALUE"})
         /\ IsNode(v.children[Len(v.children)], {"TEXT"})
         /\ NextKind(v) = "COMMA"

---------------------------------------------------------------------------
(* C16  The contexts of content.                                           *)

\* the (allow_environment, allow_comma) pairs content has been called with
Contexts == {<<c[1], c[2]>> : c \in parser.calls}

\* C16: content is called with (true, true), (false, true) or (true, false)
\* only, never with (false, false).
C16_ThreeContexts == Contexts \subseteq {<<TRUE, TRUE>>, <<FALSE, TRUE>>, <<TRUE, FALSE>>}

\* a finished parse in which content was called with each of the three
C16_Witness ==
    /\ pc = "done"
    /\ Contexts = {<<TRUE, TRUE>>, <<FALSE, TRUE>>, <<TRUE, FALSE>>}

---------------------------------------------------------------------------
(* C17  Contents parsed with allow_environment = false.                    *)

RECURSIVE Nested(_)
\* a brace group and the brace groups directly in it, at any depth
Nested(g) ==
    {g} \cup UNION {Nested(g.children[i]) :
                      i \in {j \in DOMAIN g.children : IsNode(g.children[j], {"CURLY_GROUP"})}}

\* the groups built by curly_group_without_environments: the body arguments
\* of an environment definition, and the brace groups directly in such a
\* group
ProtectedGroups ==
    UNION {Nested(g) :
             g \in {c \in UNION {Range(n.children) :
                                   n \in {m \in Built : IsNode(m, {"ENVIRONMENT_DEFINITION"})}} :
                      IsNode(c, {"CURLY_GROUP"})}}

\* the node is headed by a token of one of the kinds
HeadedBy(e, kinds) == e.node /\ e.children # <<>> /\ IsToken(e.children[1], kinds)

\* C17: among the direct children of a group built by
\* curly_group_without_environments there is no ENVIRONMENT, BEGIN or END
\* node; a child headed by BEGIN_ENVIRONMENT_NAME or by
\* END_ENVIRONMENT_NAME is a GENERIC_COMMAND; and this holds of the brace
\* groups directly in such a group as well.
C17_NoEnvironmentInProtected ==
    \A g \in ProtectedGroups :
        \A i \in DOMAIN g.children :
            /\ ~IsNode(g.children[i], {"ENVIRONMENT", "BEGIN", "END"})
            /\ HeadedBy(g.children[i], {"BEGIN_ENVIRONMENT_NAME", "END_ENVIRONMENT_NAME"}) =>
                 IsNode(g.children[i], {"GENERIC_COMMAND"})

\* a finished parse with a body argument that holds a brace group, which
\* holds a GENERIC_COMMAND headed by BEGIN_ENVIRONMENT_NAME and after it one
\* headed by END_ENVIRONMENT_NAME
C17_Witness ==
    /\ pc = "done"
    /\ \E g \in ProtectedGroups :
         \E c \in Range(g.children) :
            /\ IsNode(c, {"CURLY_GROUP"})
            /\ \E i \in DOMAIN c.children :
                 /\ i + 1 <= Len(c.children)
                 /\ HeadedBy(c.children[i], {"BEGIN_ENVIRONMENT_NAME"})
                 /\ IsNode(c.children[i], {"GENERIC_COMMAND"})
                 /\ HeadedBy(c.children[i + 1], {"END_ENVIRONMENT_NAME"})
                 /\ IsNode(c.children[i + 1], {"GENERIC_COMMAND"})

---------------------------------------------------------------------------
(* C18  Environments below a protected group.                              *)

\* C18: no ENVIRONMENT node is a descendant, at any depth, of a group built
\* by curly_group_without_environments.
C18_NoEnvironmentBelowProtected ==
    \A g \in ProtectedGroups : \A e \in Desc(g) : ~IsNode(e, {"ENVIRONMENT"})

---------------------------------------------------------------------------
(* C19  The brace group of graphics_path.                                  *)

\* the kinds path is entered on
PathStart == {"WORD", "EQUALITY_SIGN", "L_BRACK", "R_BRACK", "GENERIC_COMMAND_NAME"}

\* the tokens i..(j - 1) as leaves
TokensFrom(i, j) == [m \in 1..(j - i) |-> Leaf(input[i + m - 1], i + m - 1)]

\* C19: a GRAPHICS_PATH node holds the command token and the trivia after
\* it as direct children; if the next token is not L_CURLY it holds nothing
\* else, hence no group and no MISSING leaf; if it is L_CURLY, it holds one
\* more child, a node that starts with that L_CURLY and the trivia after
\* it, of kind CURLY_GROUP_WORD if the token after those is one path
\* starts on and of kind CURLY_GROUP otherwise.
C19_GraphicsPathGroup ==
    \A n \in Built :
        IsNode(n, {"GRAPHICS_PATH"}) =>
            LET name == n.children[1]
                open == TriviaEnd(name.text + 1)
                head == TokensFrom(name.text, open)
                next == TriviaEnd(open + 1)
                g == n.children[Len(n.children)]
            IN  /\ IsToken(name, {"GRAPHICS_PATH_NAME"})
                /\ IF open <= Len(input) /\ input[open] = "L_CURLY"
                   THEN /\ n.children = Append(head, g)
                        /\ SubSeq(g.children, 1, next - open) = TokensFrom(open, next)
                        /\ IF next <= Len(input) /\ input[next] \in PathStart
                           THEN IsNode(g, {"CURLY_GROUP_WORD"})
                           ELSE IsNode(g, {"CURLY_GROUP"})
                   ELSE n.children = head

\* a finished parse of \graphicspath, a space, a brace, a space and a word:
\* the group is a CURLY_GROUP_WORD that starts with the brace and the space
C19_Witness ==
    /\ pc = "done"
    /\ input = <<"GRAPHICS_PATH_NAME", "WHITESPACE", "L_CURLY", "WHITESPACE", "WORD">>
    /\ \E n \in Desc(green) :
         /\ IsNode(n, {"GRAPHICS_PATH"})
         /\ IsNode(n.children[3], {"CURLY_GROUP_WORD"})

---------------------------------------------------------------------------
(* C20  The MISSING leaf of label_number.                                  *)

\* C20: a LABEL_NUMBER holds the command token and a CURLY_GROUP_WORD or,
\* in its absence, MISSING; after a CURLY_GROUP_WORD it holds a CURLY_GROUP
\* and right after it a MISSING leaf exactly when the token after the
\* CURLY_GROUP_WORD is L_CURLY, and otherwise nothing more, so no MISSING
\* leaf as direct child.
C20_LabelNumberMissing ==
    \A n \in Built :
        IsNode(n, {"LABEL_NUMBER"}) =>
            LET nt == SelectSeq(n.children, LAMBDA e : ~IsToken(e, TriviaKinds))
                last == Len(n.children)
            IN  /\ Shape(n) \in {<<"LABEL_NUMBER_NAME", MISSING>>,
                                 <<"LABEL_NUMBER_NAME", "CURLY_GROUP_WORD">>,
                                 <<"LABEL_NUMBER_NAME", "CURLY_GROUP_WORD", "CURLY_GROUP",
                                   MISSING>>}
                /\ IsMissing(nt[2]) => NextKind(n) # "L_CURLY"
                /\ IsNode(nt[2], {"CURLY_GROUP_WORD"}) =>
                     (Len(nt) = 4 <=> NextKind(nt[2]) = "L_CURLY")
                /\ Len(nt) = 4 =>
                     /\ IsMissing(n.children[last])
                     /\ IsNode(n.children[last - 1], {"CURLY_GROUP"})

\* a finished parse with a LABEL_NUMBER whose two brace groups are closed
\* and which ends with MISSING
C20_Witness ==
    /\ pc = "done"
    /\ \E n \in Desc(green) :
         /\ IsNode(n, {"LABEL_NUMBER"})
         /\ Len(n.children) = 4
         /\ Closed(n.children[2])
         /\ Closed(n.children[3])
         /\ IsMissing(n.children[4])


=============================================================================
